---- MODULE Spec2Model ----
(***************************************************************************)
(* Model of the "discipline" habit tracker: user registration and login,   *)
(* JWT issuance and parsing, the authentication middleware, and the habit  *)
(* and habit-check services with their ownership tests.                    *)
(*                                                                         *)
(* Go values are represented as follows.                                   *)
(*   string        the sequence of its runs [c |-> character, n |-> count] *)
(*   error         a string: the Go name of a sentinel of package          *)
(*                 errorvalues, or the message of an errors.New(...) value; *)
(*                 errors.New never wraps, so errors.Is is name equality    *)
(*   uuid.UUID     a positive integer; 0 is the zero UUID                  *)
(*   time.Time     an integer count of clock ticks, TicksPerSecond a second *)
(***************************************************************************)
EXTENDS Integers, Sequences, FiniteSets, TLC

VARIABLES
    users,      \* rows of table users
    habits,     \* rows of table habits
    checks,     \* rows of table habit_checks
    nextUid,    \* next value uuid_generate_v4() hands out
    now,        \* the wall clock time.Now() reads
    held,       \* the token string the client got from its latest login
    registered, \* history: the successful registrations (name, password,
                \* id) whose user has not been deleted since
    last,       \* record of the most recent call: its inputs and its outcome
    proc        \* the server process: Run, its goroutine, the cleanup jobs

vars == <<users, habits, checks, nextUid, now, held, registered, last, proc>>

(***************************************************************************)
(* Bounds of the model                                                     *)
(***************************************************************************)
MaxUsers == 2          \* user rows ever inserted (SpecUsers)
MaxAccounts == 1       \* user rows ever inserted (Spec)
TicksPerSecond == 2    \* resolution of the clock
MaxHabits == 2         \* habit rows in the database
MaxDate == 2           \* calendar days 0..MaxDate
MaxJobs == 3           \* cleanup jobs registered before Run
MaxActive == 1         \* requests being served at once (SpecShutdown)

(***************************************************************************)
(* Program constants                                                       *)
(***************************************************************************)
tokenTTL == 3600 * TicksPerSecond
NameMin == 3
NameMax == 100
PasswordMin == 8
PasswordMax == 72

StatusOK == 200
StatusCreated == 201
StatusBadRequest == 400
StatusUnauthorized == 401
StatusForbidden == 403
StatusNotFound == 404
StatusConflict == 409
StatusInternalServerError == 500

(***************************************************************************)
(* errors                                                                  *)
(***************************************************************************)
NoErr == "nil"
ErrUserExists == "ErrUserExists"
ErrUserNotFound == "ErrUserNotFound"
ErrWrongCredentials == "ErrWrongCredentials"
ErrInvalidToken == "ErrInvalidToken"
ErrUserHasHabit == "ErrUserHasHabit"
ErrHabitNotFound == "ErrHabitNotFound"
ErrOwnerNotFound == "ErrOwnerNotFound"
ErrWrongOwner == "ErrWrongOwner"
ErrCheckExist == "ErrCheckExist"
ErrCheckNotFound == "ErrCheckNotFound"
ErrCheckDateNotAllowed == "ErrCheckDateNotAllowed"

\* errors.Is(err, target) for errors that wrap nothing
ErrorsIs(err, target) == err = target

(***************************************************************************)
(* Strings of names and passwords are kept as their runs: the sequence of  *)
(* [c |-> character, n |-> how many times it repeats], adjacent runs       *)
(* holding different characters, so that equal strings are equal values.   *)
(***************************************************************************)
\* strings.Repeat(c, n)
Rep(c, n) == IF n = 0 THEN <<>> ELSE <<[c |-> c, n |-> n]>>

\* the string of the characters of cs, no two adjacent ones equal
RECURSIVE Chars(_)
Chars(cs) == IF cs = <<>> THEN <<>> ELSE Rep(Head(cs), 1) \o Chars(Tail(cs))

\* len(s)
RECURSIVE StrLen(_)
StrLen(s) == IF s = <<>> THEN 0 ELSE Head(s).n + StrLen(Tail(s))

Letters == {"a", "b", "c"}
Digits == {"1"}

IsLetter(c) == c \in Letters
IsDigit(c) == c \in Digits

NoUser == [ID |-> 0, Name |-> <<>>, PasswordHash |-> [salt |-> 0, pw |-> <<>>]]

(***************************************************************************)
(* Request validation                                                      *)
(***************************************************************************)
\* the custom validator tag alphanum_underscore
AlphanumUnderscore(value) ==
    \A i \in 1..Len(value) :
        /\ ~(i = 1 /\ (IsDigit(value[i].c) \/ value[i].c = "_"))
        /\ (IsLetter(value[i].c) \/ IsDigit(value[i].c) \/ value[i].c = "_")

\* validate.Struct without the custom tag of Name
ValidateStructBuiltinTags(req) ==
    /\ StrLen(req.Name) # 0
    /\ StrLen(req.Name) >= NameMin
    /\ StrLen(req.Name) <= NameMax
    /\ StrLen(req.Password) # 0
    /\ StrLen(req.Password) >= PasswordMin
    /\ StrLen(req.Password) <= PasswordMax

\* validate.Struct(RegisterRequest): the struct tags of Name and Password
ValidateStruct(req) ==
    /\ StrLen(req.Name) # 0
    /\ AlphanumUnderscore(req.Name)
    /\ StrLen(req.Name) >= NameMin
    /\ StrLen(req.Name) <= NameMax
    /\ StrLen(req.Password) # 0
    /\ StrLen(req.Password) >= PasswordMin
    /\ StrLen(req.Password) <= PasswordMax

(***************************************************************************)
(* Password hashing                                                        *)
(***************************************************************************)
\* Hash: a salted one-way digest of the password
Hash(password, salt) == [salt |-> salt, pw |-> password]

\* bcrypt.CompareHashAndPassword(hash, password) == nil
CompareHashAndPassword(hash, password) == hash.pw = password

(***************************************************************************)
(* UsersRepository over table users (id primary key, name UNIQUE)          *)
(***************************************************************************)
UsersRepoCreate(us, id, user, dbErr) ==
    IF dbErr
    THEN [err |-> "creating user db error: ", users |-> us]
    ELSE IF \E u \in us : u.Name = user.Name
    THEN [err |-> ErrUserExists, users |-> us]
    ELSE [err |-> NoErr,
          users |-> us \cup {[ID |-> id, Name |-> user.Name,
                              PasswordHash |-> user.PasswordHash]}]

\* FindByName whose WHERE clause does not bind the name
UsersRepoFindByNameAnyRow(us, name, dbErr) ==
    IF dbErr THEN [err |-> "searching user error: ", user |-> NoUser]
    ELSE IF us = {} THEN [err |-> ErrUserNotFound, user |-> NoUser]
    ELSE [err |-> NoErr,
          user |-> CHOOSE u \in us : \A v \in us : u.ID <= v.ID]

UsersRepoFindByName(us, name, dbErr) ==
    IF dbErr
    THEN [err |-> "searching user by name error: ", user |-> NoUser]
    ELSE IF \E u \in us : u.Name = name
    THEN [err |-> NoErr, user |-> CHOOSE u \in us : u.Name = name]
    ELSE [err |-> ErrUserNotFound, user |-> NoUser]

UsersRepoFindByID(us, uid, dbErr) ==
    IF dbErr
    THEN [err |-> "searching user by id error: ", user |-> NoUser]
    ELSE IF \E u \in us : u.ID = uid
    THEN [err |-> NoErr, user |-> CHOOSE u \in us : u.ID = uid]
    ELSE [err |-> ErrUserNotFound, user |-> NoUser]

UsersRepoDelete(us, uid, dbErr) ==
    IF dbErr
    THEN [err |-> "deleting user error: ", users |-> us]
    ELSE IF ~(\E u \in us : u.ID = uid)
    THEN [err |-> ErrUserNotFound, users |-> us]
    ELSE [err |-> NoErr, users |-> {u \in us : u.ID # uid}]

(***************************************************************************)
(* UserService                                                             *)
(***************************************************************************)
\* Register: id is the value the table's DEFAULT uuid_generate_v4() assigns,
\* createFails and findFails say whether the store fails the two calls.
Register(us, id, req, salt, createFails, findFails) ==
    IF ~ValidateStruct(req)
    THEN [err |-> "validation error: ", user |-> NoUser, users |-> us]
    ELSE LET passwordHash == Hash(req.Password, salt)
             c == UsersRepoCreate(us, id,
                      [Name |-> req.Name, PasswordHash |-> passwordHash],
                      createFails)
         IN IF c.err # NoErr
            THEN IF ErrorsIs(c.err, ErrUserExists)
                 THEN [err |-> "user with such name already exists",
                       user |-> NoUser, users |-> c.users]
                 ELSE [err |-> "repository creating error: ",
                       user |-> NoUser, users |-> c.users]
            ELSE LET f == UsersRepoFindByName(c.users, req.Name, findFails)
                 IN IF f.err # NoErr
                    THEN [err |-> "repository searching error: ",
                          user |-> NoUser, users |-> c.users]
                    ELSE [err |-> NoErr, user |-> f.user, users |-> c.users]

Login(us, name, password, findFails) ==
    LET f == UsersRepoFindByName(us, name, findFails)
    IN IF f.err # NoErr
       THEN IF ErrorsIs(f.err, ErrUserNotFound)
            THEN [err |-> "user with given name not found", user |-> NoUser]
            ELSE [err |-> "repository searching error: ", user |-> NoUser]
       ELSE IF ~CompareHashAndPassword(f.user.PasswordHash, password)
            THEN [err |-> "login failed: wrong password", user |-> NoUser]
            ELSE [err |-> NoErr, user |-> f.user]

GetByID(us, id, findFails) ==
    LET f == UsersRepoFindByID(us, id, findFails)
    IN IF f.err # NoErr
       THEN IF ErrorsIs(f.err, ErrUserNotFound)
            THEN [err |-> "user with given id not found", user |-> NoUser]
            ELSE [err |-> "repository searching error: ", user |-> NoUser]
       ELSE [err |-> NoErr, user |-> f.user]

DeleteAccount(us, id, password, findFails, deleteFails) ==
    LET f == UsersRepoFindByID(us, id, findFails)
    IN IF f.err # NoErr
       THEN IF ErrorsIs(f.err, ErrUserNotFound)
            THEN [err |-> "user with given id not found", users |-> us]
            ELSE [err |-> "repository searching error: ", users |-> us]
       ELSE IF ~CompareHashAndPassword(f.user.PasswordHash, password)
            THEN [err |-> "deletion failed: wrong password", users |-> us]
            ELSE LET d == UsersRepoDelete(us, f.user.ID, deleteFails)
                 IN IF d.err # NoErr
                    THEN IF ErrorsIs(d.err, ErrUserNotFound)
                         THEN [err |-> "user with given id not found",
                               users |-> d.users]
                         ELSE [err |-> "repository deletion error: ",
                               users |-> d.users]
                    ELSE [err |-> NoErr, users |-> d.users]

(***************************************************************************)
(* JWTService.  A token string is the record of what its three segments    *)
(* hold: wellformed says whether it has three segments whose header and    *)
(* payload decode, alg is the header's algorithm, claims the payload and   *)
(* sig the signature.  A MAC is the record of the key and the signed text. *)
(***************************************************************************)
ServerSecret == "JWT_SECRET"
ForeignSecret == "guessed"

\* uuid.UUID.String() and uuid.Parse
UUIDString(id) == <<"uuid", id>>
UUIDParse(str) ==
    IF Len(str) = 2 /\ str[1] = "uuid"
    THEN [err |-> NoErr, uid |-> str[2]]
    ELSE [err |-> "invalid UUID format", uid |-> 0]

\* a NewNumericDate that rounds up to the next whole second
NewNumericDateRoundUp(t) ==
    ((t + TicksPerSecond - 1) \div TicksPerSecond) * TicksPerSecond

\* jwt.NewNumericDate truncates to jwt.TimePrecision, one second
NewNumericDate(t) == (t \div TicksPerSecond) * TicksPerSecond

\* HMAC-SHA256 over header and payload
Sign(secret, alg, claims) == [key |-> secret, alg |-> alg, msg |-> claims]

NoClaims ==
    [UserID |-> <<>>, Username |-> <<>>, ExpiresAt |-> 0, IssuedAt |-> 0,
     NotBefore |-> 0]

\* GenerateToken, t1 <= t2 <= t3 being its three reads of time.Now()
GenerateToken(secret, user, t1, t2, t3) ==
    LET expTime == t1 + tokenTTL
        claims == [UserID |-> UUIDString(user.ID),
                   Username |-> user.Name,
                   ExpiresAt |-> NewNumericDate(expTime),
                   IssuedAt |-> NewNumericDate(t2),
                   NotBefore |-> NewNumericDate(t3)]
    IN [wellformed |-> TRUE, alg |-> "HS256", claims |-> claims,
        sig |-> Sign(secret, "HS256", claims)]

\* jwt.ParseWithClaims with the key function of ParseToken, at time t:
\* decode the segments, ask the key function for the key, verify the
\* signature, then validate exp and nbf against the clock.
ParseWithClaims(secret, tok, t) ==
    IF ~tok.wellformed
    THEN [err |-> "token is malformed", valid |-> FALSE, claims |-> NoClaims]
    ELSE IF tok.alg # "HS256"
    THEN [err |-> "token is unverifiable: unexpected signing method",
          valid |-> FALSE, claims |-> tok.claims]
    ELSE IF tok.sig # Sign(secret, tok.alg, tok.claims)
    THEN [err |-> "signature is invalid", valid |-> FALSE, claims |-> tok.claims]
    ELSE IF ~(t < tok.claims.ExpiresAt)
    THEN [err |-> "token has invalid claims: token is expired",
          valid |-> FALSE, claims |-> tok.claims]
    ELSE IF t < tok.claims.NotBefore
    THEN [err |-> "token has invalid claims: token is not valid yet",
          valid |-> FALSE, claims |-> tok.claims]
    ELSE [err |-> NoErr, valid |-> TRUE, claims |-> tok.claims]

ParseToken(secret, tokenString, t) ==
    LET p == ParseWithClaims(secret, tokenString, t)
    IN IF p.err # NoErr
       THEN [err |-> "token parsing error: ", claims |-> NoClaims]
       ELSE IF ~p.valid
       THEN [err |-> ErrInvalidToken, claims |-> NoClaims]
       ELSE [err |-> NoErr, claims |-> p.claims]

(***************************************************************************)
(* The authentication middleware.  A header value is the sequence of its   *)
(* space-separated fields, as strings.Split(value, " ") returns them; the  *)
(* empty header is <<"">>.  The bearer field is a token string or "".      *)
(***************************************************************************)
NoToken ==
    [wellformed |-> FALSE, alg |-> "", claims |-> NoClaims,
     sig |-> Sign("", "", NoClaims)]

EmptyHeader == <<[word |-> "", tok |-> NoToken]>>

\* GetTokenFromHeader taking the second field whatever the scheme
GetTokenFromHeaderAnyScheme(header) ==
    IF header = EmptyHeader \/ Len(header) # 2
    THEN [err |-> ErrInvalidToken, token |-> NoToken]
    ELSE [err |-> NoErr, token |-> header[2].tok]

GetTokenFromHeader(header) ==
    IF header = EmptyHeader
    THEN [err |-> ErrInvalidToken, token |-> NoToken]
    ELSE IF Len(header) # 2 \/ header[1].word # "Bearer"
    THEN [err |-> ErrInvalidToken, token |-> NoToken]
    ELSE [err |-> NoErr, token |-> header[2].tok]

Rejected(status, message) ==
    [status |-> status, message |-> message, written |-> 1,
     nextCalled |-> FALSE, ctxUid |-> 0]

\* AuthMiddleware: tParse is the clock when ParseToken validates the claims,
\* tCheck >= tParse the clock read by the middleware's own test.
AuthMiddleware(header, us, secret, tParse, tCheck, findFails) ==
    LET h == GetTokenFromHeader(header)
    IN IF h.err # NoErr
       THEN Rejected(StatusUnauthorized, "authorization failed: invalid token")
       ELSE
       LET p == ParseToken(secret, h.token, tParse)
       IN IF p.err # NoErr
          THEN IF ErrorsIs(p.err, ErrInvalidToken)
               THEN Rejected(StatusUnauthorized,
                             "authorization failed: invalid token")
               ELSE Rejected(StatusInternalServerError, "error parsing token")
          ELSE IF p.claims.ExpiresAt < tCheck \/ p.claims.NotBefore > tCheck
          THEN Rejected(StatusUnauthorized, "token expired or not ready")
          ELSE
          LET u == UUIDParse(p.claims.UserID)
          IN IF u.err # NoErr
             THEN Rejected(StatusUnauthorized, "invalid token payload")
             ELSE
             LET g == GetByID(us, u.uid, findFails)
             IN IF g.err # NoErr
                THEN IF ErrorsIs(g.err, ErrUserNotFound)
                     THEN Rejected(StatusNotFound, "auth failed: user not found")
                     ELSE Rejected(StatusInternalServerError,
                                   "internal error while searching for user")
                ELSE [status |-> StatusOK, message |-> "", written |-> 0,
                      nextCalled |-> TRUE, ctxUid |-> u.uid]

(***************************************************************************)
(* The Register and Login handlers: the response to a decoded request,     *)
(* given what the service returned.                                        *)
(***************************************************************************)
RegisterResponse(r) ==
    IF r.err # NoErr
    THEN IF ErrorsIs(r.err, ErrUserExists)
         THEN [status |-> StatusConflict,
               message |-> "user with such name already exists"]
         ELSE [status |-> StatusInternalServerError,
               message |-> "internal error during registration"]
    ELSE [status |-> StatusCreated, message |-> ""]

LoginResponse(r) ==
    IF r.err # NoErr
    THEN IF ErrorsIs(r.err, ErrUserNotFound)
         THEN [status |-> StatusNotFound,
               message |-> "user with such name doesn't exist"]
         ELSE IF ErrorsIs(r.err, ErrWrongCredentials)
         THEN [status |-> StatusForbidden,
               message |-> "invalid username or password"]
         ELSE [status |-> StatusInternalServerError,
               message |-> "internal error during login"]
    ELSE [status |-> StatusOK, message |-> ""]

\* the CreateHabit handler: the response to a request with a uid in its
\* context and a decoded body, given what the service returned
CreateHabitResponse(r) ==
    IF r.err # NoErr
    THEN IF ErrorsIs(r.err, ErrUserHasHabit)
         THEN [status |-> StatusConflict, message |-> "habit already exists"]
         ELSE IF ErrorsIs(r.err, ErrUserNotFound)
         THEN [status |-> StatusNotFound,
               message |-> "couldn't create habit: user doesn't exists"]
         ELSE [status |-> StatusInternalServerError,
               message |-> "internal error while creating habit"]
    ELSE [status |-> StatusCreated, message |-> ""]

\* the DeleteHabit handler answering 403 to a requester who is not the owner
DeleteHabitResponseForbidden(r) ==
    IF r.err # NoErr
    THEN IF ErrorsIs(r.err, ErrHabitNotFound)
         THEN [status |-> StatusNotFound, message |-> "habit doesn't exist"]
         ELSE IF ErrorsIs(r.err, ErrWrongOwner)
         THEN [status |-> StatusForbidden, message |-> "habit doesn't exist"]
         ELSE [status |-> StatusInternalServerError,
               message |-> "internal error while deleting habit"]
    ELSE [status |-> StatusOK, message |-> ""]

\* the DeleteHabit handler: the response to a request with a uid in its
\* context and a habit id in its path, given what the service returned;
\* on success the handler writes nothing, which net/http sends as 200
DeleteHabitResponse(r) ==
    IF r.err # NoErr
    THEN IF ErrorsIs(r.err, ErrHabitNotFound)
         THEN [status |-> StatusNotFound, message |-> "habit doesn't exist"]
         ELSE IF ErrorsIs(r.err, ErrWrongOwner)
         THEN [status |-> StatusNotFound, message |-> "habit doesn't exist"]
         ELSE [status |-> StatusInternalServerError,
               message |-> "internal error while deleting habit"]
    ELSE [status |-> StatusOK, message |-> ""]

(***************************************************************************)
(* Tables habits and habit_checks.  check_date is a DATE column: it keeps  *)
(* the calendar day of the instant written to it.                          *)
(***************************************************************************)
TicksPerDay == 86400 * TicksPerSecond
DateOf(t) == t \div TicksPerDay

HabitChecksColumns == {"id", "habit_id", "check_date", "created_at"}

\* an unquoted identifier of a statement, as PostgreSQL resolves it: folded
\* to lower case and looked up among the table's columns
ColumnResolves(identifier, columns) == identifier \in columns

NoHabit == [ID |-> 0, UserID |-> 0, Title |-> ""]

\* the INSERT of HabitsRepository.Create: its target columns and the
\* expressions of its VALUES list
InsertHabitsColumns == <<"user_id", "title", "description">>
InsertHabitsValues == <<"$1", "$2">>

\* PostgreSQL rejects an INSERT with more target columns than expressions
\* (and one with more expressions than target columns)
InsertAccepted(columns, values) == Len(columns) = Len(values)

\* HabitsRepository.Create: of the SQLSTATE codes only 23505, the unique
\* violation of (user_id, title), is classified; 23503, the violation of
\* the foreign key user_id, is reported like any other failure.  id is the
\* value uuid_generate_v4() would give the row.
HabitsRepoCreate(hs, us, id, habit, dbErr) ==
    IF dbErr \/ ~InsertAccepted(InsertHabitsColumns, InsertHabitsValues)
    THEN [err |-> "creating habit db error: ", id |-> 0, habits |-> hs]
    ELSE IF \E h \in hs : h.UserID = habit.UserID /\ h.Title = habit.Title
    THEN [err |-> ErrUserHasHabit, id |-> 0, habits |-> hs]
    ELSE IF ~\E u \in us : u.ID = habit.UserID
    THEN [err |-> "creating habit db error: ", id |-> 0, habits |-> hs]
    ELSE [err |-> NoErr, id |-> id,
          habits |-> hs \cup {[ID |-> id, UserID |-> habit.UserID,
                               Title |-> habit.Title]}]

HabitsRepoGetByID(hs, id, dbErr) ==
    IF dbErr
    THEN [err |-> "getting habit by id error: ", habit |-> NoHabit]
    ELSE IF \E h \in hs : h.ID = id
    THEN [err |-> NoErr, habit |-> CHOOSE h \in hs : h.ID = id]
    ELSE [err |-> ErrHabitNotFound, habit |-> NoHabit]

\* the words that open the clauses of the statement of GetByUserID, as
\* the source writes them
GetByUserIDClauses == <<"SELECT", "FROM", "WHERE", "IMIT", "OFFSET">>

\* the words that can open a clause of a SELECT statement
SelectClauseWords ==
    {"SELECT", "FROM", "WHERE", "GROUP BY", "ORDER BY", "LIMIT", "OFFSET"}

StatementParses(clauses) ==
    \A i \in 1..Len(clauses) : clauses[i] \in SelectClauseWords

\* rows: the habits of uid in the order the database produces them (the
\* statement has no ORDER BY)
HabitsRepoGetByUserID(uid, limit, offset, rows, dbErr) ==
    IF dbErr \/ ~StatementParses(GetByUserIDClauses)
    THEN [err |-> "getting habits by uid error: ", habits |-> <<>>]
    ELSE [err |-> NoErr,
          habits |-> SubSeq(rows, offset + 1,
                            IF offset + limit < Len(rows)
                            THEN offset + limit ELSE Len(rows))]

\* DELETE FROM habits that leaves the checks of the habit behind
HabitsRepoDeleteKeepingChecks(hs, cs, id, dbErr) ==
    IF dbErr
    THEN [err |-> "error deleting habit: ", habits |-> hs, checks |-> cs]
    ELSE IF ~(\E h \in hs : h.ID = id)
    THEN [err |-> ErrHabitNotFound, habits |-> hs, checks |-> cs]
    ELSE [err |-> NoErr, habits |-> {h \in hs : h.ID # id}, checks |-> cs]

\* DELETE FROM habits; habit_checks.habit_id is ON DELETE CASCADE
HabitsRepoDelete(hs, cs, id, dbErr) ==
    IF dbErr
    THEN [err |-> "error deleting habit: ", habits |-> hs, checks |-> cs]
    ELSE IF ~(\E h \in hs : h.ID = id)
    THEN [err |-> ErrHabitNotFound, habits |-> hs, checks |-> cs]
    ELSE [err |-> NoErr, habits |-> {h \in hs : h.ID # id},
          checks |-> {c \in cs : c.HabitID # id}]

ChecksRepoCreate(hs, cs, habitID, date, dbErr) ==
    IF dbErr
    THEN [err |-> "creating check error: ", checks |-> cs]
    ELSE IF ~(\E h \in hs : h.ID = habitID)
    THEN [err |-> ErrHabitNotFound, checks |-> cs]
    ELSE IF \E c \in cs : c.HabitID = habitID /\ c.CheckDate = DateOf(date)
    THEN [err |-> ErrCheckExist, checks |-> cs]
    ELSE [err |-> NoErr,
          checks |-> cs \cup {[HabitID |-> habitID, CheckDate |-> DateOf(date)]}]

ChecksRepoDelete(cs, habitID, date, dbErr) ==
    IF dbErr
    THEN [err |-> "deleting check error: ", checks |-> cs]
    ELSE IF ~(\E c \in cs : c.HabitID = habitID /\ c.CheckDate = DateOf(date))
    THEN [err |-> ErrCheckNotFound, checks |-> cs]
    ELSE [err |-> NoErr,
          checks |-> {c \in cs : ~(c.HabitID = habitID
                                   /\ c.CheckDate = DateOf(date))}]

\* the statement filters on "habitID", which PostgreSQL reads as habitid
ChecksRepoExists(cs, habitID, date, dbErr) ==
    IF dbErr \/ ~ColumnResolves("habitid", HabitChecksColumns)
    THEN [err |-> "inspecting if check exists error: ", exists |-> FALSE]
    ELSE [err |-> NoErr,
          exists |-> \E c \in cs : c.HabitID = habitID
                                   /\ c.CheckDate = DateOf(date)]

ChecksRepoGetByHabitAndDateRange(cs, habitID, from, to, dbErr) ==
    IF dbErr \/ ~ColumnResolves("habitid", HabitChecksColumns)
    THEN [err |-> "getting checks for period error: ", checks |-> {}]
    ELSE [err |-> NoErr,
          checks |-> {c \in cs : /\ c.HabitID = habitID
                                 /\ c.CheckDate >= DateOf(from)
                                 /\ c.CheckDate <= DateOf(to)}]

(***************************************************************************)
(* HabitsService and HabitChecksService                                    *)
(***************************************************************************)
CreateHabit(hs, us, id, uid, title, createFails, getFails) ==
    LET c == HabitsRepoCreate(hs, us, id, [UserID |-> uid, Title |-> title],
                              createFails)
    IN IF c.err # NoErr
       THEN IF ErrorsIs(c.err, ErrOwnerNotFound)
            THEN [err |-> ErrUserNotFound, habit |-> NoHabit, habits |-> c.habits]
            ELSE IF ErrorsIs(c.err, ErrUserHasHabit)
            THEN [err |-> ErrUserHasHabit, habit |-> NoHabit,
                  habits |-> c.habits]
            ELSE [err |-> "habits repository error: ", habit |-> NoHabit,
                  habits |-> c.habits]
       ELSE LET g == HabitsRepoGetByID(c.habits, c.id, getFails)
            IN IF g.err # NoErr
               THEN IF ErrorsIs(g.err, ErrHabitNotFound)
                    THEN [err |-> g.err, habit |-> NoHabit,
                          habits |-> c.habits]
                    ELSE [err |-> "habits repository error: ",
                          habit |-> NoHabit, habits |-> c.habits]
               ELSE [err |-> NoErr, habit |-> g.habit, habits |-> c.habits]

GetHabit(hs, habitID, userID, getFails) ==
    LET g == HabitsRepoGetByID(hs, habitID, getFails)
    IN IF g.err # NoErr
       THEN IF ErrorsIs(g.err, ErrHabitNotFound)
            THEN [err |-> g.err, habit |-> NoHabit]
            ELSE [err |-> "habits repository error: ", habit |-> NoHabit]
       ELSE IF g.habit.UserID # userID
       THEN [err |-> ErrWrongOwner, habit |-> NoHabit]
       ELSE [err |-> NoErr, habit |-> g.habit]

GetUserHabits(uid, limit, offset, rows, listFails) ==
    LET l == HabitsRepoGetByUserID(uid, limit, offset, rows, listFails)
    IN IF l.err # NoErr
       THEN [err |-> "habits repository error: ", habits |-> <<>>]
       ELSE [err |-> NoErr, habits |-> l.habits]

\* DeleteHabit without the ownership test
DeleteHabitAnyRequester(hs, cs, habitID, userID, getFails, deleteFails) ==
    LET g == HabitsRepoGetByID(hs, habitID, getFails)
    IN IF g.err # NoErr
       THEN [err |-> g.err, habits |-> hs, checks |-> cs]
       ELSE LET d == HabitsRepoDelete(hs, cs, habitID, deleteFails)
            IN [err |-> d.err, habits |-> d.habits, checks |-> d.checks]

DeleteHabit(hs, cs, habitID, userID, getFails, deleteFails) ==
    LET g == HabitsRepoGetByID(hs, habitID, getFails)
    IN IF g.err # NoErr
       THEN IF ErrorsIs(g.err, ErrHabitNotFound)
            THEN [err |-> g.err, habits |-> hs, checks |-> cs]
            ELSE [err |-> "habits repository error: ", habits |-> hs,
                  checks |-> cs]
       ELSE IF g.habit.UserID # userID
       THEN [err |-> ErrWrongOwner, habits |-> hs, checks |-> cs]
       ELSE LET d == HabitsRepoDelete(hs, cs, habitID, deleteFails)
            IN IF d.err # NoErr
               THEN IF ErrorsIs(d.err, ErrHabitNotFound)
                    THEN [err |-> d.err, habits |-> d.habits,
                          checks |-> d.checks]
                    ELSE [err |-> "habits repository error: ",
                          habits |-> d.habits, checks |-> d.checks]
               ELSE [err |-> NoErr, habits |-> d.habits, checks |-> d.checks]

\* DeleteHabit up to its call of Delete: the error it returns there, or
\* NoErr when it goes on to Delete; ctxDone says whether the context given
\* to the store is done, which makes the store call fail
DeleteHabitUntilDelete(hs, habitID, userID, ctxDone) ==
    LET g == HabitsRepoGetByID(hs, habitID, ctxDone)
    IN IF g.err # NoErr
       THEN IF ErrorsIs(g.err, ErrHabitNotFound)
            THEN g.err
            ELSE "habits repository error: "
       ELSE IF g.habit.UserID # userID
       THEN ErrWrongOwner
       ELSE NoErr

\* the rest of DeleteHabit: Delete and the error made of its answer
DeleteHabitFromDelete(hs, cs, habitID, ctxDone) ==
    LET d == HabitsRepoDelete(hs, cs, habitID, ctxDone)
    IN IF d.err # NoErr
       THEN IF ErrorsIs(d.err, ErrHabitNotFound)
            THEN [err |-> d.err, habits |-> d.habits, checks |-> d.checks]
            ELSE [err |-> "habits repository error: ",
                  habits |-> d.habits, checks |-> d.checks]
       ELSE [err |-> NoErr, habits |-> d.habits, checks |-> d.checks]

\* CheckHabit testing the date before the owner
CheckHabitDateFirst(hs, cs, habitID, userID, date, t, getFails, existsFails, createFails) ==
    LET g == HabitsRepoGetByID(hs, habitID, getFails)
    IN IF g.err # NoErr
       THEN IF ErrorsIs(g.err, ErrHabitNotFound)
            THEN [err |-> g.err, checks |-> cs]
            ELSE [err |-> "repository error: ", checks |-> cs]
       ELSE IF date > t
       THEN [err |-> ErrCheckDateNotAllowed, checks |-> cs]
       ELSE IF g.habit.UserID # userID
       THEN [err |-> ErrWrongOwner, checks |-> cs]
       ELSE [err |-> "repository error: ", checks |-> cs]

\* CheckHabit refusing the current moment as well as the future
CheckHabitNotNow(hs, cs, habitID, userID, date, t, getFails, existsFails, createFails) ==
    LET g == HabitsRepoGetByID(hs, habitID, getFails)
    IN IF g.err # NoErr
       THEN [err |-> g.err, checks |-> cs]
       ELSE IF g.habit.UserID # userID
       THEN [err |-> ErrWrongOwner, checks |-> cs]
       ELSE IF date >= t
       THEN [err |-> ErrCheckDateNotAllowed, checks |-> cs]
       ELSE [err |-> "repository error: ", checks |-> cs]

\* CheckHabit at clock t
CheckHabit(hs, cs, habitID, userID, date, t, getFails, existsFails, createFails) ==
    LET g == HabitsRepoGetByID(hs, habitID, getFails)
    IN IF g.err # NoErr
       THEN IF ErrorsIs(g.err, ErrHabitNotFound)
            THEN [err |-> g.err, checks |-> cs]
            ELSE [err |-> "repository error: ", checks |-> cs]
       ELSE IF g.habit.UserID # userID
       THEN [err |-> ErrWrongOwner, checks |-> cs]
       ELSE IF date > t
       THEN [err |-> ErrCheckDateNotAllowed, checks |-> cs]
       ELSE LET e == ChecksRepoExists(cs, habitID, date, existsFails)
            IN IF e.err # NoErr
               THEN [err |-> "repository error: ", checks |-> cs]
               ELSE IF e.exists
               THEN [err |-> ErrCheckExist, checks |-> cs]
               ELSE LET c == ChecksRepoCreate(hs, cs, habitID, date, createFails)
                    IN IF c.err # NoErr
                       THEN [err |-> "repository error: ", checks |-> c.checks]
                       ELSE [err |-> NoErr, checks |-> c.checks]

\* CheckHabit up to the answer of Exists: the error it returns there, or
\* NoErr when it goes on to Create
CheckHabitUntilCreate(hs, cs, habitID, userID, date, t) ==
    LET g == HabitsRepoGetByID(hs, habitID, FALSE)
    IN IF g.err # NoErr
       THEN IF ErrorsIs(g.err, ErrHabitNotFound)
            THEN g.err
            ELSE "repository error: "
       ELSE IF g.habit.UserID # userID
       THEN ErrWrongOwner
       ELSE IF date > t
       THEN ErrCheckDateNotAllowed
       ELSE LET e == ChecksRepoExists(cs, habitID, date, FALSE)
            IN IF e.err # NoErr
               THEN "repository error: "
               ELSE IF e.exists THEN ErrCheckExist ELSE NoErr

\* the rest of CheckHabit: Create and the error made of its answer
CheckHabitFromCreate(hs, cs, habitID, date) ==
    LET c == ChecksRepoCreate(hs, cs, habitID, date, FALSE)
    IN IF c.err # NoErr
       THEN [err |-> "repository error: ", checks |-> c.checks]
       ELSE [err |-> NoErr, checks |-> c.checks]

UncheckHabit(hs, cs, habitID, userID, date, getFails, existsFails, deleteFails) ==
    LET g == HabitsRepoGetByID(hs, habitID, getFails)
    IN IF g.err # NoErr
       THEN IF ErrorsIs(g.err, ErrHabitNotFound)
            THEN [err |-> g.err, checks |-> cs]
            ELSE [err |-> "repository error: ", checks |-> cs]
       ELSE IF g.habit.UserID # userID
       THEN [err |-> ErrWrongOwner, checks |-> cs]
       ELSE LET e == ChecksRepoExists(cs, habitID, date, existsFails)
            IN IF e.err # NoErr
               THEN [err |-> "repository error: ", checks |-> cs]
               ELSE IF ~e.exists
               THEN [err |-> ErrCheckNotFound, checks |-> cs]
               ELSE LET d == ChecksRepoDelete(cs, habitID, date, deleteFails)
                    IN IF d.err # NoErr
                       THEN [err |-> "repository error: ", checks |-> d.checks]
                       ELSE [err |-> NoErr, checks |-> d.checks]

GetHabitChecks(hs, cs, habitID, userID, from, to, getFails, rangeFails) ==
    LET g == HabitsRepoGetByID(hs, habitID, getFails)
    IN IF g.err # NoErr
       THEN IF ErrorsIs(g.err, ErrHabitNotFound)
            THEN [err |-> g.err, result |-> {}]
            ELSE [err |-> "repository error: ", result |-> {}]
       ELSE IF g.habit.UserID # userID
       THEN [err |-> ErrWrongOwner, result |-> {}]
       ELSE LET r == ChecksRepoGetByHabitAndDateRange(cs, habitID, from, to,
                                                      rangeFails)
            IN IF r.err # NoErr
               THEN [err |-> "repository error: ", result |-> {}]
               ELSE [err |-> NoErr, result |-> r.checks]

\* GetHabitStats returns (nil, nil) once the ownership test has passed
GetHabitStats(hs, habitID, userID, getFails) ==
    LET g == HabitsRepoGetByID(hs, habitID, getFails)
    IN IF g.err # NoErr
       THEN IF ErrorsIs(g.err, ErrHabitNotFound)
            THEN [err |-> g.err, stats |-> "nil"]
            ELSE [err |-> "repository error: ", stats |-> "nil"]
       ELSE IF g.habit.UserID # userID
       THEN [err |-> ErrWrongOwner, stats |-> "nil"]
       ELSE [err |-> NoErr, stats |-> "nil"]

(***************************************************************************)
(* Inputs                                                                  *)
(***************************************************************************)
ValidNames == {Chars(<<"a", "1", "_">>), Rep("b", NameMax)}
InvalidNames ==
    {<<>>, Chars(<<"a", "b">>), Rep("c", NameMax + 1),
     Chars(<<"1", "a", "b">>), Chars(<<"_", "a", "b">>),
     Chars(<<"a", "-", "b">>)}

ValidPasswords == {Rep("x", PasswordMin), Rep("y", PasswordMax)}
InvalidPasswords == {Rep("x", PasswordMin - 1), Rep("y", PasswordMax + 1)}

SomeName == Chars(<<"a", "1", "_">>)
SomePassword == Rep("x", PasswordMin)

\* the requests Register's validation refuses: each invalid name or
\* password next to a valid partner
RegisterInputs ==
    (InvalidNames \X {SomePassword})
    \cup ({SomeName} \X InvalidPasswords)

\* the instants the clock visits: the first second, and the ticks around
\* the expiry of a token issued in it
TimePoints ==
    (0..(TicksPerSecond - 1))
    \cup ((tokenTTL - 1)..(tokenTTL + TicksPerSecond - 1))

\* what a client that does not hold the server's secret can make of a token
Forgeries(t) ==
    {[t EXCEPT !.sig = Sign(ForeignSecret, t.alg, t.claims)],
     [t EXCEPT !.alg = "HS384", !.sig = Sign(ForeignSecret, "HS384", t.claims)],
     [t EXCEPT !.alg = "none", !.sig = Sign("", "none", t.claims)],
     [t EXCEPT !.wellformed = FALSE],
     [t EXCEPT !.claims.ExpiresAt = @ + tokenTTL]}

Word(w) == [word |-> w, tok |-> NoToken]
Jwt(t) == [word |-> "<jwt>", tok |-> t]
Bearer(t) == <<Word("Bearer"), Jwt(t)>>

\* the Authorization headers a client holding token t sends
Headers(t) ==
    {EmptyHeader, Bearer(NoToken)}
    \cup (IF t = NoToken
          THEN {}
          ELSE {Bearer(t), <<Jwt(t)>>, <<Word("Basic"), Jwt(t)>>,
                <<Word("bearer"), Jwt(t)>>,
                <<Word("Bearer"), Jwt(t), Word("x")>>}
               \cup {Bearer(f) : f \in Forgeries(t)})

(***************************************************************************)
(* Calls                                                                   *)
(***************************************************************************)
\* POST /auth/register; at most maxRows rows are ever inserted.  The digest
\* is salted with a value no earlier digest used.
RegisterCall(name, password, createFails, findFails, maxRows) ==
    LET req == [Name |-> name, Password |-> password]
        r == Register(users, nextUid, req, nextUid, createFails, findFails)
        resp == RegisterResponse(r)
    IN /\ r.users = users \/ nextUid <= maxRows
       /\ users' = r.users
       /\ nextUid' = IF r.users = users THEN nextUid ELSE nextUid + 1
       /\ last' = [op |-> "Register", name |-> name, password |-> password,
                   createFails |-> createFails, findFails |-> findFails,
                   err |-> r.err, user |-> r.user, status |-> resp.status,
                   before |-> users]
       /\ registered' = IF r.err = NoErr
                        THEN registered \cup {[name |-> name,
                                                password |-> password,
                                                id |-> r.user.ID]}
                        ELSE registered
       /\ UNCHANGED <<proc, habits, checks, now, held>>

\* POST /auth/login; the clock moves by elapsed while the token is built,
\* and the client keeps the token of its latest login
LoginCall(name, password, findFails, elapsed) ==
    LET r == Login(users, name, password, findFails)
        resp == LoginResponse(r)
        token == IF r.err = NoErr
                 THEN GenerateToken(ServerSecret, r.user, now, now + elapsed,
                                    now + elapsed)
                 ELSE NoToken
    IN /\ now + elapsed \in TimePoints
       /\ r.err # NoErr => elapsed = 0
       /\ held' = IF r.err = NoErr THEN token ELSE held
       /\ now' = now + elapsed
       /\ last' = [op |-> "Login", name |-> name, password |-> password,
                   findFails |-> findFails,
                   err |-> r.err, user |-> r.user, status |-> resp.status,
                   token |-> token, at |-> now, until |-> now + elapsed]
       /\ UNCHANGED <<proc, users, habits, checks, nextUid, registered>>

\* UserService.DeleteAccount; habits.user_id and habit_checks.habit_id are
\* ON DELETE CASCADE
DeleteAccountCall(id, password, findFails, deleteFails) ==
    LET r == DeleteAccount(users, id, password, findFails, deleteFails)
        keptHabits == {h \in habits : \E u \in r.users : u.ID = h.UserID}
    IN /\ users' = r.users
       /\ habits' = keptHabits
       /\ checks' = {c \in checks : \E h \in keptHabits : h.ID = c.HabitID}
       /\ last' = [op |-> "DeleteAccount", id |-> id, password |-> password,
                   err |-> r.err, before |-> users,
                   findFails |-> findFails, deleteFails |-> deleteFails,
                   habitsBefore |-> habits, checksBefore |-> checks]
       /\ registered' = {g \in registered : \E u \in r.users : u.ID = g.id}
       /\ UNCHANGED <<proc, nextUid, now, held>>

\* a request to a route behind AuthMiddleware
AuthRequest(header, elapsed, findFails) ==
    LET r == AuthMiddleware(header, users, ServerSecret, now, now + elapsed,
                            findFails)
    IN /\ now + elapsed \in TimePoints
       /\ now' = now + elapsed
       /\ last' = [op |-> "AuthMiddleware", header |-> header,
                   tParse |-> now, tCheck |-> now + elapsed,
                   findFails |-> findFails,
                   status |-> r.status, message |-> r.message,
                   written |-> r.written, nextCalled |-> r.nextCalled,
                   ctxUid |-> r.ctxUid]
       /\ UNCHANGED <<proc, users, habits, checks, nextUid, held, registered>>

Tick(t) ==
    /\ t > now
    /\ now' = t
    /\ UNCHANGED <<proc, users, habits, checks, nextUid, held, registered, last>>

(***************************************************************************)
(* The server process.  main is the position of the main goroutine, serve  *)
(* that of the goroutine Run starts, jobs the registered cleanup jobs, ran *)
(* the jobs CleanUp has run, closed whether Shutdown has been called,      *)
(* active the requests being served, result what Run returned, exited      *)
(* whether os.Exit has ended the process.                                  *)
(***************************************************************************)
ProcessStart ==
    [main |-> "constructing", serve |-> "notStarted", jobs |-> <<>>,
     ran |-> <<>>, signalled |-> FALSE, closed |-> FALSE, active |-> 0,
     result |-> "none", exited |-> FALSE]

(***************************************************************************)
(* Spec: one account, its token and the requests made with it, over time   *)
(***************************************************************************)
Init ==
    /\ proc = ProcessStart
    /\ users = {}
    /\ habits = {}
    /\ checks = {}
    /\ nextUid = 1
    /\ now = 0
    /\ held = NoToken
    /\ registered = {}
    /\ last = [op |-> "none"]

Next ==
    \/ \E createFails \in BOOLEAN, findFails \in BOOLEAN :
          RegisterCall(SomeName, SomePassword, createFails, findFails,
                       MaxAccounts)
    \/ \E password \in ValidPasswords, elapsed \in 0..1 :
          LoginCall(SomeName, password, FALSE, elapsed)
    \/ \E id \in 1..MaxAccounts :
          DeleteAccountCall(id, SomePassword, FALSE, FALSE)
    \/ \E header \in Headers(held), elapsed \in 0..2, findFails \in BOOLEAN :
          AuthRequest(header, elapsed, findFails)
    \/ \E t \in TimePoints : Tick(t)

Spec == Init /\ [][Next]_vars

(***************************************************************************)
(* SpecUsers: registration, login and account deletion, at a fixed instant *)
(***************************************************************************)
NextUsers ==
    \/ \E in \in ValidNames \X ValidPasswords, fails \in 0..2 :
          RegisterCall(in[1], in[2], fails = 1, fails = 2, MaxUsers)
    \/ \E in \in RegisterInputs :
          RegisterCall(in[1], in[2], FALSE, FALSE, MaxUsers)
    \/ \E name \in ValidNames, password \in ValidPasswords,
          findFails \in BOOLEAN :
          LoginCall(name, password, findFails, 0)
    \/ \E id \in 1..(MaxUsers + 1), password \in ValidPasswords :
          DeleteAccountCall(id, password, FALSE, FALSE)
    \/ \E id \in 1..MaxUsers, fails \in 1..2 :
          DeleteAccountCall(id, SomePassword, fails = 1, fails = 2)

SpecUsers == Init /\ [][NextUsers]_vars

(***************************************************************************)
(* SpecHabits: the habit and habit-check services over a database that     *)
(* already holds two users, their habits and some checks                   *)
(***************************************************************************)
OtherName == Chars(<<"b", "a", "b">>)

FixtureUsers ==
    {[ID |-> 1, Name |-> SomeName, PasswordHash |-> Hash(SomePassword, 1)],
     [ID |-> 2, Name |-> OtherName, PasswordHash |-> Hash(SomePassword, 2)]}

\* habit i belongs to user 1 or 2 in turn; no owner has a title twice
FixtureHabits ==
    {[ID |-> i, UserID |-> 1 + (i % 2), Title |-> <<"t", (i + 1) \div 2>>] :
        i \in 1..MaxHabits}

\* every habit checked on each of the first days calendar days
FixtureChecks(days) ==
    {[HabitID |-> h.ID, CheckDate |-> d] : h \in FixtureHabits, d \in 0..(days - 1)}

\* the last tick of day MaxDate - 1
Today == MaxDate * TicksPerDay - 1

\* the instants given as dates: midnights of the days, this instant, the next
DateInputs == {d * TicksPerDay : d \in 0..MaxDate} \cup {Today, Today + 1}

\* the titles asked for: those of the stored habits and one nobody has
HabitTitles == {<<"t", k>> : k \in 1..((MaxHabits + 1) \div 2 + 1)}

\* an id no stored user has
AbsentUserID == Cardinality(FixtureUsers) + 1

InitHabits ==
    /\ proc = ProcessStart
    /\ users = FixtureUsers
    /\ habits = FixtureHabits
    /\ \E days \in 0..MaxDate : checks = FixtureChecks(days)
    /\ nextUid = Cardinality(FixtureUsers) + MaxHabits + 1
    /\ now = Today
    /\ held = NoToken
    /\ registered = {}
    /\ last = [op |-> "none"]

\* POST /habits
CreateHabitCall(userID, title, createFails, getFails) ==
    LET r == CreateHabit(habits, users, nextUid, userID, title, createFails,
                         getFails)
        resp == CreateHabitResponse(r)
    IN /\ habits' = r.habits
       /\ nextUid' = IF r.habits = habits THEN nextUid ELSE nextUid + 1
       /\ last' = [op |-> "CreateHabit", userID |-> userID, title |-> title,
                   createFails |-> createFails, getFails |-> getFails,
                   err |-> r.err, habit |-> r.habit,
                   status |-> resp.status, message |-> resp.message,
                   habitsBefore |-> habits, checksBefore |-> checks]
       /\ UNCHANGED <<proc, users, checks, now, held, registered>>

GetHabitCall(habitID, userID, getFails) ==
    LET r == GetHabit(habits, habitID, userID, getFails)
    IN /\ last' = [op |-> "GetHabit", habitID |-> habitID, userID |-> userID,
                   err |-> r.err, habit |-> r.habit, result |-> {},
                   habitsBefore |-> habits, checksBefore |-> checks,
                   getFails |-> getFails]
       /\ UNCHANGED <<proc, users, habits, checks, nextUid, now, held, registered>>

DeleteHabitCall(habitID, userID, getFails, deleteFails) ==
    LET r == DeleteHabit(habits, checks, habitID, userID, getFails, deleteFails)
        resp == DeleteHabitResponse(r)
    IN /\ habits' = r.habits
       /\ checks' = r.checks
       /\ last' = [op |-> "DeleteHabit", habitID |-> habitID,
                   userID |-> userID, err |-> r.err, habit |-> NoHabit,
                   result |-> {}, deleteFails |-> deleteFails,
                   status |-> resp.status, message |-> resp.message,
                   habitsBefore |-> habits, checksBefore |-> checks,
                   getFails |-> getFails]
       /\ UNCHANGED <<proc, users, nextUid, now, held, registered>>

CheckHabitCall(habitID, userID, date, getFails, existsFails, createFails) ==
    LET r == CheckHabit(habits, checks, habitID, userID, date, now, getFails,
                        existsFails, createFails)
    IN /\ checks' = r.checks
       /\ last' = [op |-> "CheckHabit", habitID |-> habitID,
                   userID |-> userID, err |-> r.err, habit |-> NoHabit,
                   result |-> {}, date |-> date, at |-> now,
                   existsFails |-> existsFails, createFails |-> createFails,
                   habitsBefore |-> habits, checksBefore |-> checks,
                   getFails |-> getFails]
       /\ UNCHANGED <<proc, users, habits, nextUid, now, held, registered>>

\* two CheckHabit requests for the same habit and date served at once: both
\* run up to the answer of Exists on the same stored data, then each that
\* goes on runs Create, one after the other
ConcurrentCheckHabitCall(habitID, userID, date) ==
    LET first == CheckHabitUntilCreate(habits, checks, habitID, userID, date, now)
        second == CheckHabitUntilCreate(habits, checks, habitID, userID, date, now)
        a == IF first = NoErr
             THEN CheckHabitFromCreate(habits, checks, habitID, date)
             ELSE [err |-> first, checks |-> checks]
        b == IF second = NoErr
             THEN CheckHabitFromCreate(habits, a.checks, habitID, date)
             ELSE [err |-> second, checks |-> a.checks]
    IN /\ checks' = b.checks
       /\ last' = [op |-> "ConcurrentCheckHabit", habitID |-> habitID,
                   userID |-> userID, errs |-> <<a.err, b.err>>,
                   date |-> date, at |-> now,
                   habitsBefore |-> habits, checksBefore |-> checks,
                   getFails |-> FALSE]
       /\ UNCHANGED <<proc, users, habits, nextUid, now, held, registered>>

\* a CheckHabit request and a DeleteHabit request of the owner for the same
\* habit served at once: CheckHabit runs up to the answer of Exists, then
\* DeleteHabit runs, then CheckHabit goes on with Create if it got that far
CheckHabitAcrossDeleteCall(habitID, userID, date) ==
    LET first == CheckHabitUntilCreate(habits, checks, habitID, userID, date, now)
        d == DeleteHabit(habits, checks, habitID, userID, FALSE, FALSE)
        c == IF first = NoErr
             THEN CheckHabitFromCreate(d.habits, d.checks, habitID, date)
             ELSE [err |-> first, checks |-> d.checks]
    IN /\ habits' = d.habits
       /\ checks' = c.checks
       /\ last' = [op |-> "CheckHabitAcrossDelete", habitID |-> habitID,
                   userID |-> userID, err |-> c.err, deleteErr |-> d.err,
                   date |-> date, at |-> now,
                   habitsBefore |-> habits, checksBefore |-> checks,
                   getFails |-> FALSE]
       /\ UNCHANGED <<proc, users, nextUid, now, held, registered>>

UncheckHabitCall(habitID, userID, date, getFails, existsFails, deleteFails) ==
    LET r == UncheckHabit(habits, checks, habitID, userID, date, getFails,
                          existsFails, deleteFails)
    IN /\ checks' = r.checks
       /\ last' = [op |-> "UncheckHabit", habitID |-> habitID,
                   userID |-> userID, err |-> r.err, habit |-> NoHabit,
                   result |-> {}, date |-> date,
                   existsFails |-> existsFails, deleteFails |-> deleteFails,
                   habitsBefore |-> habits, checksBefore |-> checks,
                   getFails |-> getFails]
       /\ UNCHANGED <<proc, users, habits, nextUid, now, held, registered>>

\* the statement of GetByHabitAndDateRange has no ORDER BY: the rows of the
\* answer come in whatever order the database produces them
RowsOf(answer) ==
    {rows \in [1..Cardinality(answer) -> answer] :
        \A i, j \in 1..Cardinality(answer) : i # j => rows[i] # rows[j]}

GetHabitChecksCall(habitID, userID, from, to, getFails, rangeFails) ==
    LET r == GetHabitChecks(habits, checks, habitID, userID, from, to,
                            getFails, rangeFails)
    IN /\ \E rows \in RowsOf(r.result) :
             last' = [op |-> "GetHabitChecks", habitID |-> habitID,
                      userID |-> userID, err |-> r.err, habit |-> NoHabit,
                      result |-> r.result, list |-> rows,
                      from |-> from, to |-> to, rangeFails |-> rangeFails,
                      habitsBefore |-> habits, checksBefore |-> checks,
                      getFails |-> getFails]
       /\ UNCHANGED <<proc, users, habits, checks, nextUid, now, held, registered>>

GetUserHabitsCall(userID, limit, offset, listFails) ==
    \E rows \in RowsOf({h \in habits : h.UserID = userID}) :
        LET r == GetUserHabits(userID, limit, offset, rows, listFails)
        IN /\ last' = [op |-> "GetUserHabits", userID |-> userID,
                       limit |-> limit, offset |-> offset,
                       listFails |-> listFails, err |-> r.err,
                       list |-> r.habits,
                       habitsBefore |-> habits, checksBefore |-> checks]
           /\ UNCHANGED <<proc, users, habits, checks, nextUid, now, held,
                          registered>>

GetHabitStatsCall(habitID, userID, getFails) ==
    LET r == GetHabitStats(habits, habitID, userID, getFails)
    IN /\ last' = [op |-> "GetHabitStats", habitID |-> habitID,
                   userID |-> userID, err |-> r.err, habit |-> NoHabit,
                   result |-> {}, stats |-> r.stats,
                   habitsBefore |-> habits, checksBefore |-> checks,
                   getFails |-> getFails]
       /\ UNCHANGED <<proc, users, habits, checks, nextUid, now, held, registered>>

\* fails = k: the k-th call to the store fails; 0: none does. A store failure
\* does not depend on the date asked for, so it is injected for one date only
NextHabits ==
    \/ \E userID \in 1..AbsentUserID, title \in HabitTitles, fails \in 0..2 :
          CreateHabitCall(userID, title, fails = 1, fails = 2)
    \/ \E habitID \in 1..(MaxHabits + 1), userID \in 1..2, fails \in 0..1 :
          GetHabitCall(habitID, userID, fails = 1)
    \/ \E habitID \in 1..(MaxHabits + 1), userID \in 1..2, fails \in 0..2 :
          DeleteHabitCall(habitID, userID, fails = 1, fails = 2)
    \/ \E habitID \in 1..(MaxHabits + 1), userID \in 1..2, date \in DateInputs,
          fails \in 0..3 :
          /\ fails = 0 \/ date = Today
          /\ CheckHabitCall(habitID, userID, date, fails = 1, fails = 2,
                            fails = 3)
    \/ \E habitID \in 1..(MaxHabits + 1), userID \in 1..2, date \in DateInputs :
          ConcurrentCheckHabitCall(habitID, userID, date)
    \/ \E habitID \in 1..(MaxHabits + 1), userID \in 1..2, date \in DateInputs :
          CheckHabitAcrossDeleteCall(habitID, userID, date)
    \/ \E habitID \in 1..(MaxHabits + 1), userID \in 1..2, date \in DateInputs,
          fails \in 0..3 :
          /\ fails = 0 \/ date = Today
          /\ UncheckHabitCall(habitID, userID, date, fails = 1, fails = 2,
                              fails = 3)
    \/ \E habitID \in 1..(MaxHabits + 1), userID \in 1..2, from \in DateInputs,
          fails \in 0..2 :
          /\ fails = 0 \/ from = 0
          /\ GetHabitChecksCall(habitID, userID, from, Today, fails = 1,
                                fails = 2)
    \/ \E userID \in 1..AbsentUserID, limit \in 1..MaxHabits,
          offset \in 0..MaxHabits, listFails \in BOOLEAN :
          /\ listFails => offset = 0
          /\ GetUserHabitsCall(userID, limit, offset, listFails)
    \/ \E habitID \in 1..(MaxHabits + 1), userID \in 1..2, fails \in 0..1 :
          GetHabitStatsCall(habitID, userID, fails = 1)

SpecHabits == InitHabits /\ [][NextHabits]_vars

(***************************************************************************)
(* SpecAccounts: account deletion over the same database                   *)
(***************************************************************************)
NextAccounts ==
    \/ \E id \in 1..AbsentUserID, password \in ValidPasswords :
          DeleteAccountCall(id, password, FALSE, FALSE)
    \/ \E id \in 1..AbsentUserID, fails \in 1..2 :
          DeleteAccountCall(id, SomePassword, fails = 1, fails = 2)
    \/ \E habitID \in 1..(MaxHabits + 1), userID \in 1..2 :
          GetHabitCall(habitID, userID, FALSE)

SpecAccounts == InitHabits /\ [][NextAccounts]_vars

(***************************************************************************)
(* SpecCancel: one DELETE /habits/{id} request at a time, served in two    *)
(* steps, while the client may go away and the handler's timer may fire    *)
(***************************************************************************)
ContextCanceled == "context canceled"
DeadlineExceeded == "context deadline exceeded"

\* whether the context the handler gives to the service is done: it is made
\* by context.WithTimeout(context.Background(), ...), so only its own timer
\* ends it, not the end of the request's context
HandlerCtxDone(timedOut, requestGone) == timedOut

InFlight == last.op = "DeleteHabitSteps" /\ last.pc = "lookedUp"

\* the handler starts: the service looks the habit up and tests the owner
BeginDeleteHabit(habitID, userID) ==
    LET r == DeleteHabitUntilDelete(habits, habitID, userID,
                                    HandlerCtxDone(FALSE, FALSE))
    IN /\ ~InFlight
       /\ last' = [op |-> "DeleteHabitSteps", habitID |-> habitID,
                   userID |-> userID,
                   pc |-> IF r = NoErr THEN "lookedUp" ELSE "returned",
                   err |-> r, requestGone |-> FALSE, timedOut |-> FALSE,
                   habitsBefore |-> habits, checksBefore |-> checks]
       /\ UNCHANGED <<proc, users, habits, checks, nextUid, now, held, registered>>

\* the client closes the connection: the request's context is cancelled
CancelRequest ==
    /\ InFlight
    /\ ~last.requestGone
    /\ last' = [last EXCEPT !.requestGone = TRUE]
    /\ UNCHANGED <<proc, users, habits, checks, nextUid, now, held, registered>>

\* the timer of the handler's context fires
CtxTimeout ==
    /\ InFlight
    /\ ~last.timedOut
    /\ last' = [last EXCEPT !.timedOut = TRUE]
    /\ UNCHANGED <<proc, users, habits, checks, nextUid, now, held, registered>>

\* the service goes on: Delete with the handler's context, then returns
FinishDeleteHabit ==
    LET d == DeleteHabitFromDelete(habits, checks, last.habitID,
                                   HandlerCtxDone(last.timedOut,
                                                  last.requestGone))
    IN /\ InFlight
       /\ habits' = d.habits
       /\ checks' = d.checks
       /\ last' = [last EXCEPT !.pc = "returned", !.err = d.err]
       /\ UNCHANGED <<proc, users, nextUid, now, held, registered>>

NextCancel ==
    \/ \E habitID \in 1..(MaxHabits + 1), userID \in 1..2 :
          BeginDeleteHabit(habitID, userID)
    \/ CancelRequest
    \/ CtxTimeout
    \/ FinishDeleteHabit

SpecCancel == InitHabits /\ [][NextCancel]_vars

(***************************************************************************)
(* SpecHandlers: the habit handlers.  A request r holds the value stored   *)
(* under the uid key of its context and what the client wrote: user_id is  *)
(* an id the client names in the body or the query, id the habit id of the *)
(* path, title, limit and page the fields the handlers read.               *)
(***************************************************************************)
DefaultLimit == 10
MaxLimit == 50

\* context values: none, or a value with its dynamic type
NoValue == [type |-> "none", v |-> 0]
UUIDValue(id) == [type |-> "uuid.UUID", v |-> id]
StringValue(id) == [type |-> "string", v |-> id]

\* GetUIDFromContext reading the id the client names
GetUIDFromRequest(r) == [err |-> NoErr, uid |-> r.user_id]

\* r.Context().Value(uidContextKey).(uuid.UUID)
GetUIDFromContext(r) ==
    IF r.ctxValue.type = "uuid.UUID"
    THEN [err |-> NoErr, uid |-> r.ctxValue.v]
    ELSE [err |-> "uid invalid or doesn't exists", uid |-> 0]

\* what a handler leaves when it answers before calling the service
Unauthorized(op, r) ==
    [op |-> op, request |-> r, status |-> StatusUnauthorized,
     message |-> "no authorization", called |-> FALSE, uidPassed |-> 0,
     habitsBefore |-> habits, checksBefore |-> checks]

\* POST /habits with a decodable body
CreateHabitRequest(r) ==
    LET u == GetUIDFromContext(r)
        c == CreateHabit(habits, users, nextUid, u.uid, r.title, FALSE, FALSE)
        resp == CreateHabitResponse(c)
    IN IF u.err # NoErr
       THEN /\ last' = Unauthorized("CreateHabitRequest", r)
            /\ UNCHANGED <<proc, users, habits, checks, nextUid, now, held,
                           registered>>
       ELSE /\ habits' = c.habits
            /\ nextUid' = IF c.habits = habits THEN nextUid ELSE nextUid + 1
            /\ last' = [op |-> "CreateHabitRequest", request |-> r,
                        status |-> resp.status, message |-> resp.message,
                        called |-> TRUE, uidPassed |-> u.uid,
                        habitsBefore |-> habits, checksBefore |-> checks]
            /\ UNCHANGED <<proc, users, checks, now, held, registered>>

\* GET /habits?limit=..&page=..
GetHabitsRequest(r) ==
    LET u == GetUIDFromContext(r)
        limit == IF r.limit < 1 \/ r.limit > MaxLimit
                 THEN DefaultLimit ELSE r.limit
        page == IF r.page < 1 THEN 1 ELSE r.page
        offset == (page - 1) * limit
    IN IF u.err # NoErr
       THEN /\ last' = Unauthorized("GetHabitsRequest", r)
            /\ UNCHANGED <<proc, users, habits, checks, nextUid, now, held,
                           registered>>
       ELSE \E rows \in RowsOf({h \in habits : h.UserID = u.uid}) :
               LET l == GetUserHabits(u.uid, limit, offset, rows, FALSE)
               IN /\ last' = [op |-> "GetHabitsRequest", request |-> r,
                              status |-> IF l.err # NoErr
                                         THEN StatusInternalServerError
                                         ELSE StatusOK,
                              message |-> IF l.err # NoErr
                                          THEN "error while getting habits list"
                                          ELSE "",
                              called |-> TRUE, uidPassed |-> u.uid,
                              habitsBefore |-> habits,
                              checksBefore |-> checks]
                  /\ UNCHANGED <<proc, users, habits, checks, nextUid, now, held,
                                 registered>>

\* DELETE /habits/{id} with a well-formed id
DeleteHabitRequest(r) ==
    LET u == GetUIDFromContext(r)
        d == DeleteHabit(habits, checks, r.id, u.uid, FALSE, FALSE)
        resp == DeleteHabitResponse(d)
    IN IF u.err # NoErr
       THEN /\ last' = Unauthorized("DeleteHabitRequest", r)
            /\ UNCHANGED <<proc, users, habits, checks, nextUid, now, held,
                           registered>>
       ELSE /\ habits' = d.habits
            /\ checks' = d.checks
            /\ last' = [op |-> "DeleteHabitRequest", request |-> r,
                        status |-> resp.status, message |-> resp.message,
                        called |-> TRUE, uidPassed |-> u.uid,
                        habitsBefore |-> habits, checksBefore |-> checks]
            /\ UNCHANGED <<proc, users, nextUid, now, held, registered>>

\* the values found under the uid key: nothing, the id AuthMiddleware
\* stored, or a value of another type
ContextValues ==
    {NoValue, StringValue(1)} \cup {UUIDValue(id) : id \in 1..2}

\* the requests, each with the fields its handler reads
CreateHabitRequests ==
    [ctxValue : ContextValues, user_id : 1..2, title : HabitTitles]

GetHabitsRequests ==
    [ctxValue : ContextValues, user_id : 1..2, limit : {0, 1}, page : {1, 2}]

DeleteHabitRequests ==
    [ctxValue : ContextValues, user_id : 1..2, id : 1..(MaxHabits + 1)]

NextHandlers ==
    \/ \E r \in CreateHabitRequests : CreateHabitRequest(r)
    \/ \E r \in GetHabitsRequests : GetHabitsRequest(r)
    \/ \E r \in DeleteHabitRequests : DeleteHabitRequest(r)

SpecHandlers == InitHabits /\ [][NextHandlers]_vars

(***************************************************************************)
(* SpecShutdown: the process from the construction of the repositories to  *)
(* its end                                                                 *)
(***************************************************************************)
tables == <<users, habits, checks, nextUid, now, held, registered, last>>

\* cleanup.Register, called by the constructors of the repositories
RegisterJob(j) ==
    /\ ~proc.exited
    /\ proc.main = "constructing"
    /\ Len(proc.jobs) < MaxJobs
    /\ proc' = [proc EXCEPT !.jobs = Append(@, j)]
    /\ UNCHANGED tables

\* Run: starts the goroutine of ListenAndServe and waits for a signal
RunStarts ==
    /\ ~proc.exited
    /\ proc.main = "constructing"
    /\ proc' = [proc EXCEPT !.main = "waiting", !.serve = "listening"]
    /\ UNCHANGED tables

\* a request arrives and is being served
RequestBegins ==
    /\ ~proc.exited
    /\ proc.serve = "listening"
    /\ ~proc.closed
    /\ proc.active < MaxActive
    /\ proc' = [proc EXCEPT !.active = @ + 1]
    /\ UNCHANGED tables

RequestEnds ==
    /\ ~proc.exited
    /\ proc.active > 0
    /\ proc' = [proc EXCEPT !.active = @ - 1]
    /\ UNCHANGED tables

\* SIGINT or SIGTERM is delivered to closeCh and received
SignalReceived ==
    /\ ~proc.exited
    /\ proc.main = "waiting"
    /\ proc' = [proc EXCEPT !.main = "cleaning", !.signalled = TRUE]
    /\ UNCHANGED tables

\* CleanUp runs the next job of the list; its error is only logged
JobRuns ==
    /\ ~proc.exited
    /\ proc.main = "cleaning"
    /\ Len(proc.ran) < Len(proc.jobs)
    /\ proc' = [proc EXCEPT !.ran = Append(@, proc.jobs[Len(proc.ran) + 1])]
    /\ UNCHANGED tables

\* CleanUp has returned; Run calls Shutdown, which closes the listener
ShutdownCalled ==
    /\ ~proc.exited
    /\ proc.main = "cleaning"
    /\ Len(proc.ran) = Len(proc.jobs)
    /\ proc' = [proc EXCEPT !.main = "shuttingDown", !.closed = TRUE]
    /\ UNCHANGED tables

\* Shutdown returns: nil once no request is being served, the error of its
\* context when the 20 seconds pass first; Run returns that value
ShutdownReturns ==
    /\ ~proc.exited
    /\ proc.main = "shuttingDown"
    /\ proc' = [proc EXCEPT !.main = "returned",
                            !.result = IF proc.active = 0
                                       THEN "nil"
                                       ELSE "context deadline exceeded"]
    /\ UNCHANGED tables

\* ListenAndServe returns in its goroutine: a listen error at any time, and
\* http.ErrServerClosed as soon as Shutdown has been called; the error is
\* never nil, so the goroutine calls log.Fatal, which ends the process
ListenAndServeReturns ==
    /\ ~proc.exited
    /\ proc.serve = "listening"
    /\ proc' = [proc EXCEPT !.serve = "returned", !.exited = TRUE]
    /\ UNCHANGED tables

NextShutdown ==
    \/ \E j \in 1..MaxJobs : RegisterJob(j)
    \/ RunStarts
    \/ RequestBegins
    \/ RequestEnds
    \/ SignalReceived
    \/ JobRuns
    \/ ShutdownCalled
    \/ ShutdownReturns
    \/ ListenAndServeReturns

SpecShutdown == Init /\ [][NextShutdown]_vars

(***************************************************************************)
(* Ownership of habits                                                     *)
(***************************************************************************)
HabitOps ==
    {"GetHabit", "DeleteHabit", "CheckHabit", "UncheckHabit",
     "GetHabitChecks", "GetHabitStats"}

\* the last call named a stored habit of somebody else and the store answered
ByNonOwner ==
    /\ last.op \in HabitOps
    /\ ~last.getFails
    /\ \E h \in last.habitsBefore : h.ID = last.habitID /\ h.UserID # last.userID

\* C2: each of GetHabit, DeleteHabit, CheckHabit, UncheckHabit,
\* GetHabitChecks and GetHabitStats, called for a stored habit by a user who
\* is not its owner, fails with ErrWrongOwner, leaves the stored habits and
\* checks as they were and returns neither the habit nor any of its checks.
C2_NonOwnerRefused ==
    ByNonOwner =>
        /\ ErrorsIs(last.err, ErrWrongOwner)
        /\ habits = last.habitsBefore
        /\ checks = last.checksBefore
        /\ last.habit = NoHabit
        /\ last.result = {}

\* a non-owner asked to delete a habit that has checks, and was refused
C2_Witness ==
    /\ ByNonOwner
    /\ last.op = "DeleteHabit"
    /\ \E c \in checks : c.HabitID = last.habitID
    /\ last.err = ErrWrongOwner

(***************************************************************************)
(* The authentication gate                                                 *)
(***************************************************************************)
\* the token of the last request's header, when it has the Bearer form
Presented == last.header[2].tok

BearerForm ==
    /\ last.op = "AuthMiddleware"
    /\ Len(last.header) = 2
    /\ last.header[1].word = "Bearer"

\* the token was signed by GenerateToken with the server's secret
Authentic(t) ==
    /\ t.wellformed
    /\ t.alg = "HS256"
    /\ t.sig = Sign(ServerSecret, "HS256", t.claims)

\* C1: AuthMiddleware calls next only if the header was 'Bearer <token>',
\* the token's signature verified, the clock was inside the token's validity
\* window, the user_id claim parsed as a UUID and that user is stored; the
\* uid put in the context is the one of the claim; every other request ends
\* with exactly one error response and without a call of next.
C1_NextOnlyWhenAuthenticated ==
    last.op = "AuthMiddleware" =>
        /\ last.nextCalled =>
              /\ BearerForm
              /\ Authentic(Presented)
              /\ Presented.claims.NotBefore <= last.tParse
              /\ last.tParse < Presented.claims.ExpiresAt
              /\ Presented.claims.NotBefore <= last.tCheck
              /\ last.tCheck <= Presented.claims.ExpiresAt
              /\ Presented.claims.UserID = UUIDString(last.ctxUid)
              /\ \E u \in users : u.ID = last.ctxUid
              /\ last.written = 0
        /\ ~last.nextCalled =>
              /\ last.written = 1
              /\ last.status \in {StatusUnauthorized, StatusNotFound,
                                  StatusInternalServerError}

\* a request with the token of a stored user was let through
C1_Witness ==
    /\ BearerForm
    /\ last.nextCalled
    /\ last.ctxUid = 1
    /\ last.tParse > 0

\* C6: for a token whose signature does not verify, whose algorithm is not
\* HS256 or whose payload cannot be decoded, ParseToken returns
\* ErrInvalidToken and AuthMiddleware answers 401, not an internal error.
C6_ForgedTokenIsInvalidToken ==
    (BearerForm /\ Presented # NoToken /\ ~Authentic(Presented)) =>
        /\ ErrorsIs(ParseToken(ServerSecret, Presented, last.tParse).err,
                    ErrInvalidToken)
        /\ last.status = StatusUnauthorized

\* C7: for a token of GenerateToken presented after its expires_at,
\* ParseToken still succeeds and the middleware's own time test answers
\* 401 'token expired or not ready'.
C7_ExpiredRejectedByMiddleware ==
    (BearerForm /\ Authentic(Presented)
        /\ last.tParse > Presented.claims.ExpiresAt) =>
        /\ ParseToken(ServerSecret, Presented, last.tParse).err = NoErr
        /\ last.status = StatusUnauthorized
        /\ last.message = "token expired or not ready"

\* C8: a correctly signed token of a stored user is admitted exactly when
\* not_before <= now < expires_at; at now = expires_at, and at
\* now < not_before, the request is rejected with 401 'token expired or not
\* ready'.  (now: the one instant of a request during which the clock stood.)
C8_HalfOpenWindow ==
    (BearerForm /\ Authentic(Presented) /\ last.tParse = last.tCheck
        /\ ~last.findFails
        /\ \E u \in users : UUIDString(u.ID) = Presented.claims.UserID) =>
        /\ last.nextCalled <=>
              /\ Presented.claims.NotBefore <= last.tCheck
              /\ last.tCheck < Presented.claims.ExpiresAt
        /\ ~last.nextCalled =>
              /\ last.status = StatusUnauthorized
              /\ last.message = "token expired or not ready"

\* C9: a correctly signed, unexpired token whose user has been deleted is
\* answered 404 'auth failed: user not found', and next is not called.
C9_DeletedUserNotFound ==
    (BearerForm /\ Authentic(Presented) /\ ~last.findFails
        /\ last.tCheck < Presented.claims.ExpiresAt
        /\ ~\E u \in users : UUIDString(u.ID) = Presented.claims.UserID) =>
        /\ last.status = StatusNotFound
        /\ last.message = "auth failed: user not found"
        /\ ~last.nextCalled

\* x is the whole second that instant t lies in
WholeSecondOf(x, t) ==
    /\ x % TicksPerSecond = 0
    /\ x <= t
    /\ t < x + TicksPerSecond

\* C10: at every instant from its issue up to its expiry, ParseToken with
\* the same secret accepts the token GenerateToken made for a user and yields
\* that user's id and name and the three timestamps.
C10_TokenRoundTrip ==
    (last.op = "Login" /\ last.err = NoErr) =>
        \A t \in TimePoints :
            (last.until <= t /\ t < last.token.claims.ExpiresAt) =>
                LET p == ParseToken(ServerSecret, last.token, t)
                IN /\ p.err = NoErr
                   /\ UUIDParse(p.claims.UserID) =
                          [err |-> NoErr, uid |-> last.user.ID]
                   /\ p.claims.Username = last.user.Name
                   /\ WholeSecondOf(p.claims.ExpiresAt, last.at + tokenTTL)
                   /\ WholeSecondOf(p.claims.IssuedAt, last.until)
                   /\ WholeSecondOf(p.claims.NotBefore, last.until)

\* a login that took a tick and ended inside a second; its token parses
C10_Witness ==
    /\ last.op = "Login"
    /\ last.err = NoErr
    /\ last.at < last.until
    /\ last.until % TicksPerSecond # 0
    /\ now > last.until
    /\ ParseToken(ServerSecret, last.token, now).claims.Username = SomeName

(***************************************************************************)
(* Registration and login                                                  *)
(***************************************************************************)
\* C3: for a name and password that pass validation, once Register has
\* succeeded and returned user u, a Login with the same name and password,
\* with no DeleteAccount of u in between and the store answering, succeeds
\* and returns a user with u's id.
C3_RegisterThenLogin ==
    (last.op = "Login" /\ ~last.findFails) =>
        \A g \in registered :
            (g.name = last.name /\ g.password = last.password) =>
                /\ last.err = NoErr
                /\ last.user.ID = g.id

\* two users are registered, and the one registered second has logged in
C3_Witness ==
    /\ last.op = "Login"
    /\ last.err = NoErr
    /\ Cardinality(registered) = 2
    /\ \E g \in registered :
          /\ g.name = last.name
          /\ g.password = last.password
          /\ g.id = last.user.ID
          /\ g.id > 1

\* the last call was a valid Register request for a name some stored user
\* has, and the store answered
RegisterOfHeldName ==
    /\ last.op = "Register"
    /\ ValidateStruct([Name |-> last.name, Password |-> last.password])
    /\ ~last.createFails
    /\ \E u \in last.before : u.Name = last.name

\* C4: Register with a name a stored user already has fails with an error
\* that errors.Is takes for ErrUserExists, which the handler answers with
\* 409, and the stored users are unchanged.
C4_DuplicateNameIsErrUserExists ==
    RegisterOfHeldName =>
        /\ ErrorsIs(last.err, ErrUserExists)
        /\ last.status = StatusConflict
        /\ users = last.before

\* C5: Login with a wrong password for a stored user fails with
\* ErrWrongCredentials and is answered 403; Login with a name no stored
\* user has fails with ErrUserNotFound and is answered 404; neither is
\* answered 500.
C5_LoginFailureKinds ==
    (last.op = "Login" /\ ~last.findFails) =>
        /\ (\E u \in users : /\ u.Name = last.name
                             /\ ~CompareHashAndPassword(u.PasswordHash,
                                                        last.password)) =>
              /\ ErrorsIs(last.err, ErrWrongCredentials)
              /\ last.status = StatusForbidden
        /\ (~\E u \in users : u.Name = last.name) =>
              /\ ErrorsIs(last.err, ErrUserNotFound)
              /\ last.status = StatusNotFound

(***************************************************************************)
(* The DeleteHabit handler                                                 *)
(***************************************************************************)
\* an id no stored habit has
AbsentHabitID == MaxHabits + 1

\* C11: the DeleteHabit handler answers a requester who is not the owner of
\* a stored habit with the same status and body as it answers that
\* requester, at the same moment, for a habit id that is not stored.
C11_WrongOwnerSameAsNotFound ==
    (ByNonOwner /\ last.op = "DeleteHabit") =>
        [status |-> last.status, message |-> last.message] =
            DeleteHabitResponse(DeleteHabit(last.habitsBefore,
                                            last.checksBefore, AbsentHabitID,
                                            last.userID, FALSE, FALSE))

\* a non-owner's DELETE of a stored habit was answered 404
C11_Witness ==
    /\ ByNonOwner
    /\ last.op = "DeleteHabit"
    /\ last.err = ErrWrongOwner
    /\ last.status = StatusNotFound
    /\ last.message = "habit doesn't exist"

(***************************************************************************)
(* Creation of habits                                                      *)
(***************************************************************************)
\* the last call was a CreateHabit for a stored user, and the store answered
CreateForStoredUser ==
    /\ last.op = "CreateHabit"
    /\ ~last.createFails
    /\ ~last.getFails
    /\ \E u \in users : u.ID = last.userID

\* C12: no two stored habits have the same owner and title; a CreateHabit
\* for an owner who already has a habit of that title fails with
\* ErrUserHasHabit and adds nothing, and a CreateHabit for a stored owner
\* who has no habit of that title, whoever else has one, succeeds and
\* stores the habit.
C12_TitleUniquePerOwner ==
    /\ \A g, h \in habits :
          (g.UserID = h.UserID /\ g.Title = h.Title) => g = h
    /\ CreateForStoredUser =>
          IF \E h \in last.habitsBefore :
                h.UserID = last.userID /\ h.Title = last.title
          THEN /\ ErrorsIs(last.err, ErrUserHasHabit)
               /\ habits = last.habitsBefore
          ELSE /\ last.err = NoErr
               /\ last.habit.UserID = last.userID
               /\ last.habit.Title = last.title
               /\ habits = last.habitsBefore \cup {last.habit}

\* C13: CreateHabit for an owner id that no stored user has fails with
\* ErrUserNotFound, is answered 404, and stores no habit.
C13_UnknownOwnerIsUserNotFound ==
    (last.op = "CreateHabit" /\ ~last.createFails
        /\ ~\E u \in users : u.ID = last.userID) =>
        /\ ErrorsIs(last.err, ErrUserNotFound)
        /\ last.status = StatusNotFound
        /\ habits = last.habitsBefore

(***************************************************************************)
(* Checks of habits                                                        *)
(***************************************************************************)
\* the last call named a stored habit of the requester, and the store
\* answered the lookup of the habit
ByOwner ==
    /\ last.op \in HabitOps
    /\ ~last.getFails
    /\ \E h \in last.habitsBefore : h.ID = last.habitID /\ h.UserID = last.userID

\* a check of the last call's habit on the day of its date was stored
CheckStoredBefore ==
    \E c \in last.checksBefore :
        c.HabitID = last.habitID /\ c.CheckDate = DateOf(last.date)

\* C14: no two stored checks have the same habit and date; CheckHabit by the
\* owner for a date that already has a check fails with ErrCheckExist and
\* leaves the stored checks unchanged.
C14_OneCheckPerDay ==
    /\ \A c, d \in checks :
          (c.HabitID = d.HabitID /\ c.CheckDate = d.CheckDate) => c = d
    /\ (ByOwner /\ last.op = "CheckHabit" /\ ~last.existsFails
           /\ last.date <= last.at /\ CheckStoredBefore) =>
          /\ ErrorsIs(last.err, ErrCheckExist)
          /\ checks = last.checksBefore

\* C15: when two CheckHabit requests by the owner for the same habit and an
\* allowed date without a check both pass Exists before either creates,
\* exactly one check is stored, one request succeeds and the other fails
\* with ErrCheckExist.
C15_ConcurrentChecksOneWins ==
    (/\ last.op = "ConcurrentCheckHabit"
     /\ \E h \in last.habitsBefore :
           h.ID = last.habitID /\ h.UserID = last.userID
     /\ last.date <= last.at
     /\ ~CheckStoredBefore) =>
        /\ checks = last.checksBefore
                        \cup {[HabitID |-> last.habitID,
                               CheckDate |-> DateOf(last.date)]}
        /\ \E i, j \in 1..2 :
              /\ i # j
              /\ last.errs[i] = NoErr
              /\ ErrorsIs(last.errs[j], ErrCheckExist)

\* C16: CheckHabit by the owner of a stored habit for a date strictly after
\* the current moment fails with ErrCheckDateNotAllowed and stores no check;
\* for a date at or before the current moment it never fails with
\* ErrCheckDateNotAllowed.
C16_FutureDateRefused ==
    (ByOwner /\ last.op = "CheckHabit") =>
        /\ last.date > last.at =>
              /\ ErrorsIs(last.err, ErrCheckDateNotAllowed)
              /\ checks = last.checksBefore
        /\ last.date <= last.at =>
              ~ErrorsIs(last.err, ErrCheckDateNotAllowed)

\* the owner asked for a check one tick after the current moment
C16_Witness ==
    /\ ByOwner
    /\ last.op = "CheckHabit"
    /\ last.date = last.at + 1
    /\ last.err = ErrCheckDateNotAllowed

\* C17: UncheckHabit by the owner for a date without a check fails with
\* ErrCheckNotFound and changes nothing; for a date with a check it removes
\* exactly that check, and a CheckHabit for the same habit and date that
\* follows succeeds.
C17_UncheckRemovesTheCheck ==
    (ByOwner /\ last.op = "UncheckHabit" /\ ~last.existsFails
        /\ ~last.deleteFails) =>
        IF CheckStoredBefore
        THEN /\ last.err = NoErr
             /\ checks = last.checksBefore
                            \ {[HabitID |-> last.habitID,
                                CheckDate |-> DateOf(last.date)]}
             /\ last.date <= now =>
                   CheckHabit(habits, checks, last.habitID, last.userID,
                              last.date, now, FALSE, FALSE, FALSE).err = NoErr
        ELSE /\ ErrorsIs(last.err, ErrCheckNotFound)
             /\ checks = last.checksBefore

\* C18: GetHabitChecks by the owner returns exactly the stored checks of
\* the habit whose date is between from and to, both included, and no check
\* of another habit.
C18_ChecksOfThePeriod ==
    (ByOwner /\ last.op = "GetHabitChecks" /\ ~last.rangeFails) =>
        /\ last.err = NoErr
        /\ last.result =
              {c \in last.checksBefore :
                  /\ c.HabitID = last.habitID
                  /\ DateOf(last.from) <= c.CheckDate
                  /\ c.CheckDate <= DateOf(last.to)}

\* C19: the list GetHabitChecks returns to the owner is ordered by date.
C19_ChecksOrderedByDate ==
    (ByOwner /\ last.op = "GetHabitChecks" /\ ~last.rangeFails) =>
        /\ last.err = NoErr
        /\ \A i, j \in 1..Len(last.list) :
              i < j => last.list[i].CheckDate <= last.list[j].CheckDate

(***************************************************************************)
(* Deleted habits                                                          *)
(***************************************************************************)
\* the habits of hs that DeleteHabit has removed: no other operation of
\* the habit services removes a habit
DeletedOf(hs) == {h \in FixtureHabits : ~(\E g \in hs : g.ID = h.ID)}

\* C20: once DeleteHabit by the owner has succeeded, GetHabit and DeleteHabit
\* for that id by the owner fail with ErrHabitNotFound and no check of the
\* habit is stored.
C20_DeletedHabitIsGone ==
    /\ (last.op = "DeleteHabit" /\ last.err = NoErr) =>
          \E h \in DeletedOf(habits) :
              h.ID = last.habitID /\ h.UserID = last.userID
    /\ \A h \in DeletedOf(habits) :
          /\ GetHabit(habits, h.ID, h.UserID, FALSE).err = ErrHabitNotFound
          /\ DeleteHabit(habits, checks, h.ID, h.UserID, FALSE, FALSE).err
                = ErrHabitNotFound
          /\ ~(\E c \in checks : c.HabitID = h.ID)
    /\ (/\ last.op \in {"GetHabit", "DeleteHabit"}
        /\ ~last.getFails
        /\ \E h \in DeletedOf(last.habitsBefore) : h.ID = last.habitID) =>
          /\ last.err = ErrHabitNotFound
          /\ habits = last.habitsBefore
          /\ checks = last.checksBefore

\* the owner deleted a habit that had checks
C20_Witness ==
    /\ last.op = "DeleteHabit"
    /\ last.err = NoErr
    /\ \E h \in last.habitsBefore :
          h.ID = last.habitID /\ h.UserID = last.userID
    /\ \E c \in last.checksBefore : c.HabitID = last.habitID

(***************************************************************************)
(* Account deletion                                                        *)
(***************************************************************************)
\* C21: DeleteAccount for a stored user with a wrong password fails with
\* ErrWrongCredentials and leaves the user and the habits stored; with the
\* right password it removes the user and every habit the user owns, and a
\* repeated DeleteAccount for the id fails with ErrUserNotFound.
C21_DeleteAccountNeedsPassword ==
    (last.op = "DeleteAccount" /\ ~last.findFails /\ ~last.deleteFails) =>
        \A u \in last.before :
            u.ID = last.id =>
                IF CompareHashAndPassword(u.PasswordHash, last.password)
                THEN /\ last.err = NoErr
                     /\ users = last.before \ {u}
                     /\ habits = {h \in last.habitsBefore : h.UserID # u.ID}
                     /\ ErrorsIs(DeleteAccount(users, last.id, last.password,
                                               FALSE, FALSE).err,
                                 ErrUserNotFound)
                ELSE /\ ErrorsIs(last.err, ErrWrongCredentials)
                     /\ users = last.before
                     /\ habits = last.habitsBefore

(***************************************************************************)
(* The list of a user's habits                                             *)
(***************************************************************************)
\* the habits in the order of their creation: ids are given out in
\* increasing order
InCreationOrder(hs) ==
    CHOOSE rows \in RowsOf(hs) :
        \A i, j \in 1..Len(rows) : i < j => rows[i].ID < rows[j].ID

\* C22: GetUserHabits returns the habits at positions offset+1 ..
\* offset+limit of the owner's habits taken in creation order, fewer when
\* the list ends earlier, and no habit of another owner.
C22_PageOfOwnHabits ==
    (last.op = "GetUserHabits" /\ ~last.listFails) =>
        LET own == InCreationOrder({h \in last.habitsBefore :
                                       h.UserID = last.userID})
            end == IF last.offset + last.limit < Len(own)
                   THEN last.offset + last.limit ELSE Len(own)
        IN /\ last.err = NoErr
           /\ last.list = SubSeq(own, last.offset + 1, end)
           /\ \A i \in 1..Len(last.list) : last.list[i].UserID = last.userID

(***************************************************************************)
(* Validation of registration requests                                     *)
(***************************************************************************)
\* the name is empty, too short, too long, does not start with a letter or
\* holds a character that is no letter, digit or underscore
NameRefused(name) ==
    \/ StrLen(name) = 0
    \/ StrLen(name) < NameMin
    \/ StrLen(name) > NameMax
    \/ ~IsLetter(name[1].c)
    \/ \E i \in 1..Len(name) :
          ~(IsLetter(name[i].c) \/ IsDigit(name[i].c) \/ name[i].c = "_")

PasswordRefused(password) ==
    StrLen(password) < PasswordMin \/ StrLen(password) > PasswordMax

\* C23: Register refuses a request with a refused name or password with the
\* validation error, whatever the store would answer, and stores no user.
C23_InvalidRequestRefused ==
    (last.op = "Register"
        /\ (NameRefused(last.name) \/ PasswordRefused(last.password))) =>
        /\ last.err = "validation error: "
        /\ users = last.before
        /\ \A createFails, findFails \in BOOLEAN :
              LET r == Register(last.before, nextUid,
                                [Name |-> last.name,
                                 Password |-> last.password],
                                nextUid, createFails, findFails)
              IN r.err = "validation error: " /\ r.users = last.before

\* a name that starts with a digit was refused
C23_Witness ==
    /\ last.op = "Register"
    /\ Len(last.name) > 0
    /\ IsDigit(last.name[1].c)
    /\ \A i \in 1..Len(last.name) :
          IsLetter(last.name[i].c) \/ IsDigit(last.name[i].c)
    /\ ~PasswordRefused(last.password)
    /\ last.err = "validation error: "
    /\ users = last.before

(***************************************************************************)
(* Cancellation                                                            *)
(***************************************************************************)
\* C24: when the request was cancelled or the timeout fired while
\* DeleteHabit was between its lookup and its Delete, DeleteHabit returns a
\* cancellation error and the stored habits and checks are as they were.
C24_CancelledOperationStops ==
    (/\ last.op = "DeleteHabitSteps"
     /\ last.pc = "returned"
     /\ (last.requestGone \/ last.timedOut)) =>
        /\ \/ ErrorsIs(last.err, ContextCanceled)
           \/ ErrorsIs(last.err, DeadlineExceeded)
        /\ habits = last.habitsBefore
        /\ checks = last.checksBefore

(***************************************************************************)
(* Statistics of a habit                                                   *)
(***************************************************************************)
\* the days on which the last call's habit had a check
CheckDates == {c.CheckDate : c \in {x \in last.checksBefore :
                                       x.HabitID = last.habitID}}

\* the number of consecutive days of D that end with day d
RunEndingAt(D, d) ==
    CHOOSE n \in 1..Cardinality(D) :
        /\ \A k \in 0..(n - 1) : (d - k) \in D
        /\ (d - n) \notin D

LatestOf(D) == CHOOSE d \in D : \A e \in D : e <= d

LongestRun(D) ==
    CHOOSE n \in {RunEndingAt(D, d) : d \in D} :
        \A d \in D : RunEndingAt(D, d) <= n

\* C25: GetHabitStats by the owner returns statistics of the habit's check
\* dates: their number, the latest date, the longest run of consecutive
\* days and the run that ends with the latest date.
C25_StatsOfTheChecks ==
    (ByOwner /\ last.op = "GetHabitStats" /\ CheckDates # {}) =>
        /\ last.err = NoErr
        /\ last.stats # "nil"
        /\ last.stats.TotalChecks = Cardinality(CheckDates)
        /\ last.stats.LastCheck = LatestOf(CheckDates)
        /\ last.stats.MaxStreak = LongestRun(CheckDates)
        /\ last.stats.CurrentStreak =
              RunEndingAt(CheckDates, LatestOf(CheckDates))

(***************************************************************************)
(* A habit deleted under a check                                           *)
(***************************************************************************)
\* C26: when the owner's DeleteHabit removes the habit after CheckHabit has
\* passed its tests and before its Create, CheckHabit fails with
\* ErrHabitNotFound and no check of the deleted habit is stored.
C26_CheckOfDeletedHabit ==
    (/\ last.op = "CheckHabitAcrossDelete"
     /\ \E h \in last.habitsBefore :
           h.ID = last.habitID /\ h.UserID = last.userID
     /\ last.date <= last.at
     /\ ~CheckStoredBefore
     /\ last.deleteErr = NoErr) =>
        /\ ErrorsIs(last.err, ErrHabitNotFound)
        /\ ~(\E c \in checks : c.HabitID = last.habitID)

(***************************************************************************)
(* The order of the tests of CheckHabit                                    *)
(***************************************************************************)
\* what CheckHabit returns for the last call's input when the checks store
\* fails the calls named by the two flags
CheckHabitAgain(existsFails, createFails) ==
    CheckHabit(last.habitsBefore, last.checksBefore, last.habitID,
               last.userID, last.date, last.at, FALSE, existsFails,
               createFails)

\* C27: CheckHabit tests in the order habit stored, requester is the owner,
\* date not in the future, and returns the error of the first test that
\* fails: ErrHabitNotFound for an id not stored, ErrWrongOwner for a
\* non-owner whatever the date and the stored checks, and
\* ErrCheckDateNotAllowed for the owner with a future date; in these cases
\* the outcome does not depend on the checks store and the stored checks
\* are unchanged.
C27_FirstFailingTestDecides ==
    (last.op = "CheckHabit" /\ ~last.getFails) =>
        LET decided(e) ==
                /\ last.err = e
                /\ checks = last.checksBefore
                /\ \A existsFails, createFails \in BOOLEAN :
                      CheckHabitAgain(existsFails, createFails)
                         = [err |-> e, checks |-> last.checksBefore]
        IN /\ (~\E h \in last.habitsBefore : h.ID = last.habitID) =>
                 decided(ErrHabitNotFound)
           /\ ByNonOwner => decided(ErrWrongOwner)
           /\ (ByOwner /\ last.date > last.at) =>
                 decided(ErrCheckDateNotAllowed)

\* a non-owner asked for a check on a future date
C27_Witness ==
    /\ last.op = "CheckHabit"
    /\ ByNonOwner
    /\ last.date > last.at
    /\ last.err = ErrWrongOwner
    /\ checks = last.checksBefore

(***************************************************************************)
(* The identity the habit handlers use                                     *)
(***************************************************************************)
HandlerOps == {"CreateHabitRequest", "GetHabitsRequest", "DeleteHabitRequest"}

\* C28: a habit handler whose request context holds no uuid under the uid
\* key answers 401 without calling the service and changes nothing; when it
\* calls the service, the id it passes is the one of the context, whatever
\* id the client names in the request.
C28_IdentityFromContextOnly ==
    (last.op \in HandlerOps) =>
        IF last.request.ctxValue.type = "uuid.UUID"
        THEN last.called /\ last.uidPassed = last.request.ctxValue.v
        ELSE /\ last.status = StatusUnauthorized
             /\ ~last.called
             /\ habits = last.habitsBefore
             /\ checks = last.checksBefore

\* a request without identity that names the owner of the habit of its path
C28_Witness ==
    /\ last.op = "DeleteHabitRequest"
    /\ last.request.ctxValue = NoValue
    /\ \E h \in habits :
          h.ID = last.request.id /\ h.UserID = last.request.user_id
    /\ last.status = StatusUnauthorized
    /\ ~last.called

(***************************************************************************)
(* Create and read back                                                    *)
(***************************************************************************)
\* C29: a Register call that returns an error has stored no user.
C29_FailedRegisterStoresNothing ==
    (last.op = "Register" /\ last.err # NoErr) => users = last.before

(***************************************************************************)
(* Shutdown                                                                *)
(***************************************************************************)
\* C30: after a signal, once CleanUp is over every registered job has run
\* once in the order of registration, and when Shutdown has been called the
\* process is not ended before Run has returned the result of Shutdown.
C30_GracefulShutdown ==
    proc.signalled =>
        /\ (proc.main \in {"shuttingDown", "returned"}) =>
              proc.ran = proc.jobs
        /\ (proc.closed /\ proc.exited) =>
              proc.main = "returned" /\ proc.result # "none"

====
